---- MODULE Spec2Model ----
(***************************************************************************)
(* Model of the data-api-migrations engine: DataAPIMigrations (the         *)
(* manager), Migration (the entity) and the serverless plugin's rollback   *)
(* hook.  One step of the model is one awaited operation of the code.      *)
(***************************************************************************)
EXTENDS Integers, Sequences, FiniteSets, TLC

\* ------------------------------------------------------------------ bounds
\* Number of migration files the pool of source files offers.
MaxId == 3
\* Largest explicit count passed to rollbackMigrations.
MaxCount == 2
\* Seconds the clock runs through while files are authored.
MaxClock == 3
\* Files the migrations directory holds while files are authored.
MaxFiles == 2
\* Migration files in the directory two operators share.
MaxShared == 1
\* Files that arrive in the migrations directory between runs.
MaxAdded == 2
\* Seconds the clock runs through while one migration is authored and applied.
MaxRedate == 2

\* ------------------------------------------------------- program constants
\* /^(?<id>\d{14})_(?<name>\w+)/ : an identifier is exactly 14 digits.
IdDigits == 14

\* ---------------------------------------------------------------- helpers
Operators == {1, 2}
\* The single operator of the sequential specifications.
Solo == {1}

NoId == <<>>
\* count argument: <<>> is "argument omitted" (undefined), <<n>> is n.
Omitted == <<>>

Range(s) == {s[k] : k \in 1..Len(s)}

\* The 14-digit identifier whose last digit is n (leading zeros).
MkId(n) == [k \in 1..IdDigits |-> IF k = IdDigits THEN n ELSE 0]

Names == <<"createUsers", "createProjects", "addIndex", "dropLegacy", "addRoles">>

\* File <prefix>_<name>.<ext> of the migrations directory, which the loader's
\* compile() returns as <prefix>_<name>.js: prefix is the leading digit run of
\* the base name, name the word after the underscore.
MigrationFile(n) == [prefix |-> MkId(n), name |-> Names[n], ext |-> "ts"]
\* A file whose digit run is one digit short: not a migration file.
JunkFile == [prefix |-> SubSeq(MkId(1), 1, IdDigits - 1), name |-> "draft", ext |-> "ts"]
\* The directories considered: the k oldest migration files of the pool, for
\* every k, with or without a file that is not a migration.  Only the relative
\* order of the identifiers matters to the engine.
Directories ==
  {{MigrationFile(n) : n \in 1..k} \cup junk : k \in 0..MaxId, junk \in {{}, {JunkFile}}}

\* parseInt(id): decimal value of a digit string.
RECURSIVE DecimalValue(_, _)
DecimalValue(s, k) == IF k = 0 THEN 0 ELSE 10 * DecimalValue(s, k - 1) + s[k]
ParseInt(s) == DecimalValue(s, Len(s))

\* fileName.match(/^(?<id>\d{14})_(?<name>\w+)/) succeeds
MatchesFileName(file) == Len(file.prefix) = IdDigits /\ file.name # ""

\* (a, b) => parseInt(a.id) - parseInt(b.id)
CompareIds(a, b) == ParseInt(a.id) - ParseInt(b.id)

RECURSIVE InsertSorted(_, _)
InsertSorted(x, s) ==
  IF s = <<>> THEN <<x>>
  ELSE IF CompareIds(x, Head(s)) <= 0 THEN <<x>> \o s
  ELSE <<Head(s)>> \o InsertSorted(x, Tail(s))

RECURSIVE StableSort(_)
StableSort(s) ==
  IF s = <<>> THEN <<>> ELSE InsertSorted(Head(s), StableSort(Tail(s)))

\* A plausible slip: the listing order is kept.
SortByIdUnsorted(s) == s
\* .sort((a, b) => parseInt(a.id) - parseInt(b.id))  (Array.prototype.sort is stable)
SortById(s) == StableSort(s)

\* A plausible slip: every entity is built as not applied.
IsAppliedNever(applied, id) == FALSE
\* isApplied: appliedMigrationIds.includes(id)
IsApplied(applied, id) == id \in applied

\* A plausible slip: an entity is built for every record as well as every file.
ReconcileWithRecords(listing, applied) ==
  LET orphanIds == applied \ {listing[k].prefix : k \in 1..Len(listing)}
      extra  == CHOOSE s \in [1..Cardinality(orphanIds) -> orphanIds] :
                  Range(s) = orphanIds
      parsed == [k \in 1..Len(listing) |->
                   [id |-> listing[k].prefix, name |-> listing[k].name,
                    ok |-> MatchesFileName(listing[k])]]
                \o [k \in 1..Len(extra) |-> [id |-> extra[k], name |-> "", ok |-> TRUE]]
      sorted == SortById(SelectSeq(parsed, LAMBDA d : d.ok))
  IN [k \in 1..Len(sorted) |->
        [id |-> sorted[k].id, name |-> sorted[k].name,
         isApplied |-> IsApplied(applied, sorted[k].id)]]

\* bootstrap, after compile() resolved with `listing`: parse, drop the
\* non-matching names, sort by id, build the Migration entities.
Reconcile(listing, applied) ==
  LET parsed == [k \in 1..Len(listing) |->
                   [id |-> listing[k].prefix, name |-> listing[k].name,
                    ok |-> MatchesFileName(listing[k])]]
      kept   == SelectSeq(parsed, LAMBDA d : d.ok)
      sorted == SortById(kept)
  IN [k \in 1..Len(sorted) |->
        [id |-> sorted[k].id, name |-> sorted[k].name,
         isApplied |-> IsApplied(applied, sorted[k].id)]]

\* Array.prototype.slice(start, end)
Slice(s, start, end) ==
  LET len  == Len(s)
      from == IF start < 0 THEN (IF len + start > 0 THEN len + start ELSE 0)
              ELSE (IF start < len THEN start ELSE len)
      to   == IF end < 0 THEN (IF len + end > 0 THEN len + end ELSE 0)
              ELSE (IF end < len THEN end ELSE len)
  IN IF to > from THEN SubSeq(s, from + 1, to) ELSE <<>>

\* Array.prototype.reverse()
Reverse(s) == [k \in 1..Len(s) |-> s[Len(s) + 1 - k]]

\* -1 * count as slice reads it: -1 * undefined is NaN, which slice takes as 0.
NegCount(count) == IF count = Omitted THEN 0 ELSE 0 - count[1]

\* A plausible slip: every pending and applied migration is kept.
PendingOfAll(migrations) == migrations
\* migrations.filter((migration) => !migration.isApplied)
PendingOf(migrations) == SelectSeq(migrations, LAMBDA m : ~m.isApplied)

\* A plausible slip: the first `count` applied migrations, not the last.
RollbackSelectionFirst(migrations, count) ==
  Reverse(Slice(SelectSeq(migrations, LAMBDA m : m.isApplied), 0, 0 - NegCount(count)))
\* A plausible slip: the selection is not reversed.
RollbackSelectionForward(migrations, count) ==
  Slice(SelectSeq(migrations, LAMBDA m : m.isApplied), NegCount(count), Len(migrations))
\* migrations.filter(isApplied).slice(-1 * count, migrations.length).reverse()
RollbackSelection(migrations, count) ==
  Reverse(Slice(SelectSeq(migrations, LAMBDA m : m.isApplied),
                NegCount(count), Len(migrations)))

\* this.options.count || 1
PluginCount(opt) == IF opt = Omitted \/ opt[1] = 0 THEN <<1>> ELSE opt

\* All orders in which a listing of the set S can be returned.
RECURSIVE Orders(_)
Orders(S) ==
  IF S = {} THEN {<<>>}
  ELSE UNION {{<<x>> \o s : s \in Orders(S \ {x})} : x \in S}

\* The identifiers of S from the oldest to the newest.
InIdOrder(S) ==
  CHOOSE s \in Orders(S) :
    \A k \in 1..(Len(s) - 1) : ParseInt(s[k]) < ParseInt(s[k + 1])

\* ------------------------------------------------------------------ state
VARIABLES
  files,                \* names of the files in the migrations directory
  tableExists,          \* __migrations__ has been created
  table,                \* ids recorded in __migrations__ (id is UNIQUE)
  pc,                   \* per operator: the await its current call is at
  call,                 \* per operator: the operation called and its arguments
  appliedMigrationIds,  \* bootstrap: result of SELECT id FROM __migrations__
  migrationsToRun,      \* the entities the loop of the call runs, in order
  i,                    \* loop index of the call
  err,                  \* an exception is pending while the finally block runs
  result,               \* ids the call returned
  log,                  \* history: what the current call did so far, in order
  outOfOrder,           \* history: compile() listed the files out of id order
  tableAtCall,          \* history: content of the table when the call began
  lastApply,            \* history: how the operator's previous applyMigrations ended
  upDone,               \* history: ids whose up completed and whose down has not since
  applyOrder,           \* history: the recorded ids, in the order their INSERT completed
  now,                  \* the clock, new Date(), as the last digit of yyyyMMddHHmmss
  fileOp                \* history: the last generateMigration / bumpMigration call

vars == <<files, tableExists, table, pc, call, appliedMigrationIds, migrationsToRun,
          i, err, result, log, outOfOrder, tableAtCall, lastApply, upDone,
          applyOrder, now, fileOp>>

Resting == {"idle", "returned", "thrown"}

Ev(ev, id, ok, present) == [ev |-> ev, id |-> id, ok |-> ok, present |-> present]

NoCall == [op |-> "none", count |-> Omitted, via |-> "none", entity |-> <<>>]

\* No generateMigration or bumpMigration call was made yet.
NoFileOp ==
  [op |-> "none", name |-> "", ext |-> "", at |-> 0, count |-> 0, named |-> 0,
   picked |-> <<>>, path |-> <<>>, recorded |-> FALSE, threw |-> FALSE,
   prev |-> [op |-> "none", name |-> "", ext |-> "", at |-> 0, named |-> 0,
             path |-> <<>>, threw |-> FALSE]]

\* No operator has called anything yet.
NoCalls ==
  /\ pc = [o \in Operators |-> "idle"]
  /\ call = [o \in Operators |-> NoCall]
  /\ appliedMigrationIds = [o \in Operators |-> {}]
  /\ migrationsToRun = [o \in Operators |-> <<>>]
  /\ i = [o \in Operators |-> 0]
  /\ err = [o \in Operators |-> FALSE]
  /\ result = [o \in Operators |-> <<>>]
  /\ log = [o \in Operators |-> <<>>]
  /\ outOfOrder = [o \in Operators |-> FALSE]
  /\ tableAtCall = [o \in Operators |-> {}]
  /\ lastApply = [o \in Operators |-> "none"]
  /\ fileOp = NoFileOp

\* A fresh database and a migrations directory holding some files of the pool.
Init ==
  /\ files \in Directories
  /\ tableExists = FALSE
  /\ table = {}
  /\ upDone = {}
  /\ applyOrder = <<>>
  /\ now = MaxId
  /\ NoCalls

\* A database in which some migrations have been applied by earlier runs.
InitApplied ==
  /\ files \in Directories
  /\ tableExists = TRUE
  /\ table \in SUBSET {MkId(n) : n \in 1..MaxId}
  /\ upDone = table
  /\ applyOrder = InIdOrder(table)
  /\ now = MaxId
  /\ NoCalls

\* ---------------------------------------------------------------- actions
\* A new call of operator o: the state of its previous call is discarded.
Begin(o, c, first) ==
  /\ pc[o] \in Resting
  /\ call' = [call EXCEPT ![o] = c]
  /\ pc' = [pc EXCEPT ![o] = first]
  /\ appliedMigrationIds' = [appliedMigrationIds EXCEPT ![o] = {}]
  /\ migrationsToRun' = [migrationsToRun EXCEPT ![o] = c.entity]
  /\ i' = [i EXCEPT ![o] = 0]
  /\ err' = [err EXCEPT ![o] = FALSE]
  /\ result' = [result EXCEPT ![o] = <<>>]
  /\ log' = [log EXCEPT ![o] = <<>>]
  /\ outOfOrder' = [outOfOrder EXCEPT ![o] = FALSE]
  /\ tableAtCall' = [tableAtCall EXCEPT ![o] = table]
  /\ lastApply' = [lastApply EXCEPT ![o] =
        IF call[o].op = "applyMigrations" /\ pc[o] # "idle" THEN pc[o] ELSE @]
  /\ UNCHANGED <<applyOrder, now, fileOp, files, tableExists, table, upDone>>

\* A plausible slip: the SELECT is issued without ensuring the table first.
FirstQuerySelect(c) == "select"
\* bootstrap and getAppliedMigrationIds begin with `await this.ensureMigrationTable()`
FirstQuery(c) == "ensure"

\* manager.getAppliedMigrationIds(), as the plugin's status hook calls it; the
\* list it returns is appliedMigrationIds, in the order the database yields.
GetAppliedMigrationIds(o) ==
  LET c == [op |-> "getAppliedMigrationIds", count |-> Omitted, via |-> "manager",
            entity |-> <<>>]
  IN /\ pc[o] \in Resting
     /\ Begin(o, c, FirstQuery(c))

\* manager.applyMigrations(context)
ApplyMigrations(o) ==
  /\ pc[o] \in Resting
  /\ LET c == [op |-> "applyMigrations", count |-> Omitted, via |-> "manager",
               entity |-> <<>>]
     IN Begin(o, c, FirstQuery(c))

\* manager.rollbackMigrations(context, count), count possibly omitted
RollbackMigrations(o) ==
  \E count \in {Omitted} \cup {<<n>> : n \in 0..MaxCount} :
    /\ pc[o] \in Resting
    /\ LET c == [op |-> "rollbackMigrations", count |-> count, via |-> "manager",
                 entity |-> <<>>]
       IN Begin(o, c, FirstQuery(c))

\* the plugin's hook migrations:rollback:exec with option --count
PluginRollback(o) ==
  \E opt \in {Omitted} \cup {<<n>> : n \in 0..MaxCount} :
    /\ pc[o] \in Resting
    /\ LET c == [op |-> "rollbackMigrations", count |-> PluginCount(opt),
                 via |-> "plugin", entity |-> <<>>]
       IN Begin(o, c, FirstQuery(c))

Append1(o, e) == [log EXCEPT ![o] = Append(@, e)]

\* A failure before the try block is entered: it reaches the caller at once.
Throw(o, e) ==
  /\ pc' = [pc EXCEPT ![o] = "thrown"]
  /\ log' = Append1(o, e)

\* ensureMigrationTable: CREATE TABLE IF NOT EXISTS __migrations__
EnsureMigrationTable(o) ==
  /\ pc[o] = "ensure"
  /\ \/ /\ tableExists' = TRUE
        /\ pc' = [pc EXCEPT ![o] = "select"]
        /\ log' = Append1(o, Ev("create", NoId, TRUE, tableExists))
     \/ /\ Throw(o, Ev("create", NoId, FALSE, tableExists))
        /\ UNCHANGED tableExists
  /\ UNCHANGED <<applyOrder, now, fileOp, files, table, call, appliedMigrationIds, migrationsToRun, i, err,
                 result, outOfOrder, tableAtCall, lastApply, upDone>>

\* getAppliedMigrationIds returns to its caller: to bootstrap, which goes on
\* to compile(), or to the caller of the manager.
AfterSelect(c) == IF c.op = "getAppliedMigrationIds" THEN "returned" ELSE "compile"

\* getAppliedMigrationIds: SELECT id FROM __migrations__
SelectApplied(o) ==
  /\ pc[o] = "select"
  /\ \/ /\ tableExists
        /\ appliedMigrationIds' = [appliedMigrationIds EXCEPT ![o] = table]
        /\ pc' = [pc EXCEPT ![o] = AfterSelect(call[o])]
        /\ log' = Append1(o, Ev("select", NoId, TRUE, tableExists))
     \/ /\ Throw(o, Ev("select", NoId, FALSE, tableExists))
        /\ UNCHANGED appliedMigrationIds
  /\ UNCHANGED <<applyOrder, now, fileOp, files, tableExists, table, call, migrationsToRun, i, err,
                 result, outOfOrder, tableAtCall, lastApply, upDone>>

\* The listing is not in ascending order of its leading digit runs.
Unordered(listing) ==
  \E k \in 1..(Len(listing) - 1) :
    ParseInt(listing[k].prefix) > ParseInt(listing[k + 1].prefix)

\* What the call runs: the filter of applyMigrations or of rollbackMigrations.
Selection(c, migrations) ==
  IF c.op = "applyMigrations" THEN PendingOf(migrations)
  ELSE RollbackSelection(migrations, c.count)

\* A plausible slip: the run is started outside any try/finally.
AfterFailureNoFinally(c) == "thrown"
\* Where a failure inside the loop goes: to the finally block of the manager;
\* a Migration entity called on its own has none.
AfterFailure(c) == IF c.via = "entity" THEN "thrown" ELSE "cleanup"

\* bootstrap() is awaited before the try block: its failure skips finally.
AfterCompileFailure(c) == "thrown"

\* Where the call goes when its loop has passed index k - 1.
AfterEntity(c, k, n) ==
  IF k < n THEN "routine" ELSE IF c.via = "entity" THEN "returned" ELSE "cleanup"

\* bootstrap from `await compiler.compile()` on, and the filter of the caller
Compile(o) ==
  /\ pc[o] = "compile"
  /\ \/ \E listing \in Orders(files) :
          \E run \in {Selection(call[o], Reconcile(listing, appliedMigrationIds[o]))} :
             /\ migrationsToRun' = [migrationsToRun EXCEPT ![o] = run]
             /\ outOfOrder' = [outOfOrder EXCEPT ![o] = Unordered(listing)]
             /\ pc' = [pc EXCEPT ![o] = AfterEntity(call[o], 0, Len(run))]
             /\ log' = Append1(o, Ev("compile", NoId, TRUE, FALSE))
             /\ err' = err
     \/ /\ pc' = [pc EXCEPT ![o] = AfterCompileFailure(call[o])]
        /\ err' = [err EXCEPT ![o] = TRUE]
        /\ log' = Append1(o, Ev("compile", NoId, FALSE, FALSE))
        /\ UNCHANGED <<migrationsToRun, outOfOrder>>
  /\ UNCHANGED <<applyOrder, now, fileOp, files, tableExists, table, call, appliedMigrationIds, i,
                 result, tableAtCall, lastApply, upDone>>

\* The call runs up routines (apply) rather than down routines (rollback).
Up(c) == c.op \in {"applyMigrations", "apply"}

\* A plausible slip: the guard is missing.
RedundantNever(c, m) == FALSE
\* A plausible slip: the guard reads the table, not the flag set at bootstrap.
RedundantByTable(c, m) == IF Up(c) THEN m.id \in table ELSE m.id \notin table
\* if (this.isApplied) { return }  /  if (!this.isApplied) { return }
Redundant(c, m) == IF Up(c) THEN m.isApplied ELSE ~m.isApplied

\* A plausible slip: the loop goes on without waiting for the statement.
AfterRoutineNoWrite(c) == "routine"
\* `await up(...)` / `await down(...)` is followed by the awaited statement.
AfterRoutine(c) == "write"

Current(o) == migrationsToRun[o][i[o] + 1]

Fail(o) ==
  /\ pc' = [pc EXCEPT ![o] = AfterFailure(call[o])]
  /\ err' = [err EXCEPT ![o] = TRUE]
  /\ UNCHANGED i

Advance(o) ==
  /\ pc' = [pc EXCEPT ![o] = AfterEntity(call[o], i[o] + 1, Len(migrationsToRun[o]))]
  /\ i' = [i EXCEPT ![o] = @ + 1]
  /\ UNCHANGED err

\* Migration.apply / Migration.rollback up to the end of the routine:
\* the guard, `await import(this.file)`, `await up(...)` or `await down(...)`
MigrationRoutine(o) ==
  /\ pc[o] = "routine"
  /\ LET m == Current(o)
         routine == IF Up(call[o]) THEN "up" ELSE "down"
         loaded == Ev("import", m.id, TRUE, m.id \in table)
     IN IF Redundant(call[o], m)
        THEN /\ Advance(o)
             /\ UNCHANGED <<log, upDone>>
        ELSE \/ /\ log' = Append1(o, Ev("import", m.id, FALSE, m.id \in table))
                /\ Fail(o)
                /\ UNCHANGED upDone
             \/ /\ log' = [log EXCEPT ![o] =
                             @ \o <<loaded, Ev(routine, m.id, FALSE, m.id \in table)>>]
                /\ Fail(o)
                /\ UNCHANGED upDone
             \/ /\ log' = [log EXCEPT ![o] =
                             @ \o <<loaded, Ev(routine, m.id, TRUE, m.id \in table)>>]
                /\ upDone' = IF Up(call[o]) THEN upDone \cup {m.id} ELSE upDone \ {m.id}
                /\ pc' = [pc EXCEPT ![o] = AfterRoutine(call[o])]
                /\ UNCHANGED <<i, err>>
  /\ UNCHANGED <<applyOrder, now, fileOp, files, tableExists, table, call, appliedMigrationIds, migrationsToRun,
                 result, outOfOrder, tableAtCall, lastApply>>

\* Migration.apply / Migration.rollback: the bookkeeping statement,
\* INSERT INTO __migrations__ (id) VALUES (:id) or DELETE ... WHERE id = :id
MigrationWrite(o) ==
  /\ pc[o] = "write"
  /\ LET m == Current(o)
         stmt == IF Up(call[o]) THEN "insert" ELSE "delete"
     IN \/ /\ tableExists
           /\ Up(call[o]) => m.id \notin table   \* id is UNIQUE
           /\ table' = IF Up(call[o]) THEN table \cup {m.id} ELSE table \ {m.id}
           /\ applyOrder' = IF Up(call[o]) THEN Append(applyOrder, m.id)
                            ELSE SelectSeq(applyOrder, LAMBDA id : id # m.id)
           /\ log' = Append1(o, Ev(stmt, m.id, TRUE, m.id \in table))
           /\ Advance(o)
        \/ /\ log' = Append1(o, Ev(stmt, m.id, FALSE, m.id \in table))
           /\ Fail(o)
           /\ UNCHANGED <<table, applyOrder>>
  /\ UNCHANGED <<now, fileOp, files, tableExists, call, appliedMigrationIds, migrationsToRun,
                 result, outOfOrder, tableAtCall, lastApply, upDone>>

Ids(run) == [k \in 1..Len(run) |-> run[k].id]

\* finally { await compiler.cleanup() }, then the return or the pending throw
Cleanup(o) ==
  /\ pc[o] = "cleanup"
  /\ \E ok \in BOOLEAN :
       /\ log' = Append1(o, Ev("cleanup", NoId, ok, FALSE))
       /\ IF ok /\ ~err[o]
          THEN /\ pc' = [pc EXCEPT ![o] = "returned"]
               /\ result' = [result EXCEPT ![o] = Ids(migrationsToRun[o])]
          ELSE /\ pc' = [pc EXCEPT ![o] = "thrown"]
               /\ UNCHANGED result
  /\ UNCHANGED <<applyOrder, now, fileOp, files, tableExists, table, call, appliedMigrationIds, migrationsToRun,
                 i, err, outOfOrder, tableAtCall, lastApply, upDone>>

\* The entities a caller can build for the files of the migrations directory.
Entities ==
  {[id |-> f.prefix, name |-> f.name, isApplied |-> a] :
     f \in {g \in files : MatchesFileName(g)}, a \in BOOLEAN}

\* migration.apply(context) called on a Migration entity on its own
MigrationApply(o) ==
  \E m \in Entities :
    /\ pc[o] \in Resting
    /\ Begin(o, [op |-> "apply", count |-> Omitted, via |-> "entity", entity |-> <<m>>],
             "routine")

\* migration.rollback(context) called on a Migration entity on its own
MigrationRollback(o) ==
  \E m \in Entities :
    /\ pc[o] \in Resting
    /\ Begin(o, [op |-> "rollback", count |-> Omitted, via |-> "entity", entity |-> <<m>>],
             "routine")

\* ------------------------------------------------- authoring migration files
\* What operators type for a name, and _.camelCase of it.
Typed == <<"create users", "create-projects", "add_index", "Drop Legacy", "add roles">>
CamelCase(raw) ==
  IF \E k \in 1..Len(Typed) : Typed[k] = raw
  THEN Names[CHOOSE k \in 1..Len(Typed) : Typed[k] = raw]
  ELSE raw
\* The names given to generateMigration and bumpMigration.
NameInputs == {Typed[1], Names[1], Typed[3]}

\* formatDate(new Date(), 'yyyyMMddHHmmss')
FormatDate(t) == MkId(t)

\* this.typescript, from the configuration of the operator's manager
Typescript(o) == o = 1
ExtOf(o) == IF Typescript(o) THEN "ts" ELSE "js"

\* path.join(this.migrationsPath, `${id}_${name}.${ext}`)
Path(id, name, ext) == [prefix |-> id, name |-> name, ext |-> ext]

\* A plausible slip: the pattern does not mention the name.
MatcherAny(file, name) == TRUE
\* new RegExp(`_${name}\\.`).exec(file), for a camel-cased name (no underscore)
\* and a file `${prefix}_${name}.${ext}`
Matcher(file, name) == file.name = name

\* Order of two digit runs as the leading parts of file names: a digit sorts
\* before the underscore that ends the shorter run.
RECURSIVE DigitsLess(_, _, _)
DigitsLess(a, b, k) ==
  IF k > Len(a) THEN FALSE
  ELSE IF k > Len(b) THEN TRUE
  ELSE IF a[k] # b[k] THEN a[k] < b[k]
  ELSE DigitsLess(a, b, k + 1)

\* Array.prototype.sort() on the names of two files carrying the same name
FileNameLess(f, g) ==
  \/ DigitsLess(f.prefix, g.prefix, 1)
  \/ f.prefix = g.prefix /\ f.ext = "js" /\ g.ext = "ts"

Null == <<>>

\* findMigrationFile: the last of the matching file names in sorted order
FindMigrationFile(dir, name) ==
  LET fileList == {f \in dir : Matcher(f, name)}
  IN IF fileList = {} THEN Null
     ELSE <<CHOOSE f \in fileList : \A g \in fileList \ {f} : FileNameLess(g, f)>>

\* A plausible slip: the pattern matches nothing and the name stays as it was.
NewFileNameSame(file, id) == file
\* fileName.replace(new RegExp(`\\d+_${name}\\.`), `${id}_${name}.`)
NewFileName(file, id) ==
  IF Len(file.prefix) > 0 THEN Path(id, file.name, file.ext) ELSE file

\* What a later file operation remembers of the one before it.
Summary(op) ==
  [op |-> op.op, name |-> op.name, ext |-> op.ext, at |-> op.at,
   named |-> op.named, path |-> op.path, threw |-> op.threw]

\* Number of files of the directory carrying the name.
Named(dir, name) == Cardinality({f \in dir : f.name = name})

FileOpFrame ==
  UNCHANGED <<tableExists, table, pc, call, appliedMigrationIds, migrationsToRun, i, err,
              result, log, outOfOrder, tableAtCall, lastApply, upDone, applyOrder, now>>

\* The clock moves on by a second.
Tick(max) ==
  /\ now < max
  /\ now' = now + 1
  /\ UNCHANGED <<files, tableExists, table, pc, call, appliedMigrationIds, migrationsToRun,
                 i, err, result, log, outOfOrder, tableAtCall, lastApply, upDone,
                 applyOrder, fileOp>>

\* manager.generateMigration(name)
GenerateMigration(o, inputs) ==
  \E raw \in inputs, written \in BOOLEAN :
    LET name     == CamelCase(raw)
        filePath == Path(FormatDate(now), name, ExtOf(o))
    IN /\ pc[o] \in Resting
       /\ Cardinality(files \cup {filePath}) <= MaxFiles
       /\ files' = IF written THEN files \cup {filePath} ELSE files
       /\ fileOp' = [op |-> "generate", name |-> name, ext |-> ExtOf(o), at |-> now,
                     count |-> Cardinality(files), named |-> Named(files, name),
                     picked |-> Null, path |-> IF written THEN <<filePath>> ELSE Null,
                     recorded |-> FALSE, threw |-> ~written, prev |-> NoFileOp.prev]
       /\ FileOpFrame

\* manager.bumpMigration(name)
BumpMigration(o, inputs) ==
  \E raw \in inputs :
    \E fileName \in {FindMigrationFile(files, CamelCase(raw))} :
      LET name == CamelCase(raw)
          bumped(path, threw) ==
            [op |-> "bump", name |-> name,
             ext |-> IF fileName = Null THEN "" ELSE fileName[1].ext, at |-> now,
             count |-> Cardinality(files), named |-> Named(files, name),
             picked |-> fileName, path |-> path,
             recorded |-> fileName # Null /\ fileName[1].prefix \in table,
             threw |-> threw, prev |-> Summary(fileOp)]
      IN /\ pc[o] \in Resting
         /\ IF fileName = Null
            THEN /\ fileOp' = bumped(Null, FALSE)
                 /\ UNCHANGED files
            ELSE \E newFileName \in {NewFileName(fileName[1], FormatDate(now))} :
                   IF newFileName \notin files
                   THEN \* fs.move renames the file
                        /\ files' = (files \ {fileName[1]}) \cup {newFileName}
                        /\ fileOp' = bumped(<<newFileName>>, FALSE)
                   ELSE \* fs.move refuses an existing destination; one that is the
                        \* source itself is refused or left alone, by library version
                        /\ UNCHANGED files
                        /\ \/ fileOp' = bumped(Null, TRUE)
                           \/ /\ newFileName = fileName[1]
                              /\ fileOp' = bumped(<<newFileName>>, FALSE)
         /\ FileOpFrame

\* ---------------------------------------------------------- specifications
Next ==
  \E o \in Solo :
    \/ GetAppliedMigrationIds(o)
    \/ ApplyMigrations(o)
    \/ RollbackMigrations(o)
    \/ PluginRollback(o)
    \/ EnsureMigrationTable(o)
    \/ SelectApplied(o)
    \/ Compile(o)
    \/ MigrationRoutine(o)
    \/ MigrationWrite(o)
    \/ Cleanup(o)

Spec == Init /\ [][Next]_vars

\* Runs of the manager on a database that earlier runs have written to, where
\* records may be left whose files are no longer in the directory.
InitOrphaned ==
  /\ InitApplied
  /\ JunkFile \notin files
  /\ table \ {f.prefix : f \in files} # {}

SpecApplied == InitOrphaned /\ [][Next]_vars

\* An empty migrations directory and a fresh database, at the first second.
InitFiles ==
  /\ files = {}
  /\ tableExists = FALSE
  /\ table = {}
  /\ upDone = {}
  /\ applyOrder = <<>>
  /\ now = 1
  /\ NoCalls

\* Operators authoring migration files: generate, bump, and time passing.
NextFiles ==
  \/ Tick(MaxClock)
  \/ \E o \in Operators :
       \/ GenerateMigration(o, NameInputs)
       \/ BumpMigration(o, NameInputs)

SpecFiles == InitFiles /\ [][NextFiles]_vars

\* A file authored elsewhere arrives in the migrations directory between two
\* runs; its identifier may be smaller than identifiers already applied.
FileAdded(n) ==
  /\ \A o \in Operators : pc[o] \in Resting
  /\ MigrationFile(n) \notin files
  /\ files' = files \cup {MigrationFile(n)}
  /\ UNCHANGED <<tableExists, table, pc, call, appliedMigrationIds, migrationsToRun, i, err,
                 result, log, outOfOrder, tableAtCall, lastApply, upDone, applyOrder, now,
                 fileOp>>

InitHistory ==
  /\ Init
  /\ files = {}

NextHistory ==
  \/ \E n \in 1..MaxAdded : FileAdded(n)
  \/ \E o \in Solo :
       \/ ApplyMigrations(o)
       \/ RollbackMigrations(o)
       \/ EnsureMigrationTable(o)
       \/ SelectApplied(o)
       \/ Compile(o)
       \/ MigrationRoutine(o)
       \/ MigrationWrite(o)
       \/ Cleanup(o)

\* Runs of the manager on a directory that files keep arriving in.
SpecHistory == InitHistory /\ [][NextHistory]_vars

\* Two operators, each with a manager of their own, on one database and one
\* migrations directory.
InitShared ==
  /\ Init
  /\ JunkFile \notin files
  /\ Cardinality(files) \in 1..MaxShared

NextShared ==
  \E o \in Operators :
    \/ ApplyMigrations(o)
    \/ EnsureMigrationTable(o)
    \/ SelectApplied(o)
    \/ Compile(o)
    \/ MigrationRoutine(o)
    \/ MigrationWrite(o)
    \/ Cleanup(o)

\* applyMigrations calls of the two operators, interleaved at their awaits.
SpecShared == InitShared /\ [][NextShared]_vars

\* One operator authoring, re-dating, applying and rolling back the migration
\* of one name.
NextAuthoring ==
  \/ Tick(MaxRedate)
  \/ \E o \in Solo :
       \/ GenerateMigration(o, {Typed[1], Names[1]})
       \/ BumpMigration(o, {Typed[1], Names[1]})
       \/ ApplyMigrations(o)
       \/ RollbackMigrations(o)
       \/ EnsureMigrationTable(o)
       \/ SelectApplied(o)
       \/ Compile(o)
       \/ MigrationRoutine(o)
       \/ MigrationWrite(o)
       \/ Cleanup(o)

SpecAuthoring == InitFiles /\ [][NextAuthoring]_vars

\* Calls of apply and rollback on single Migration entities.
NextEntity ==
  \E o \in Solo :
    \/ MigrationApply(o)
    \/ MigrationRollback(o)
    \/ MigrationRoutine(o)
    \/ MigrationWrite(o)

SpecEntity == InitApplied /\ [][NextEntity]_vars

\* ------------------------------------------------------ vocabulary of claims
\* What the current call of o did, by kind of event, in order.
Events(o, kinds) == SelectSeq(log[o], LAMBDA e : e.ev \in kinds)
EvIds(o, kinds) == Ids(Events(o, kinds))
Failed(o, kinds) == \E k \in 1..Len(log[o]) : log[o][k].ev \in kinds /\ ~log[o][k].ok

\* Identifiers of the migration files of the directory.
FileIds == {f.prefix : f \in {g \in files : Len(g.prefix) = IdDigits}}
Before(a, b) == ParseInt(a) < ParseInt(b)
Ascending(s) == \A a, b \in 1..Len(s) : a < b => Before(s[a], s[b])
Descending(s) == \A a, b \in 1..Len(s) : a < b => Before(s[b], s[a])

\* Migrations without a record, and file-backed migrations with one, when the call began.
PendingAtCall(o) == FileIds \ tableAtCall[o]
AppliedAtCall(o) == FileIds \cap tableAtCall[o]
\* The n members of S with the highest identifiers (all of S when it has fewer).
Highest(S, n) == {x \in S : Cardinality({y \in S : Before(x, y)}) < n}

IsApply(o) == call[o].op = "applyMigrations"
IsRollback(o) == call[o].op = "rollbackMigrations"

\* ------------------------------------------------------------------- claims
\* C1: applyMigrations invokes the up routines of the not-yet-applied
\* migrations in strictly ascending identifier order, whatever order compile()
\* lists the files in, and when all succeed returns exactly those identifiers
\* in that order.
C1_ApplyAscending ==
  \A o \in Operators : IsApply(o) =>
    /\ Ascending(EvIds(o, {"up"}))
    /\ Range(EvIds(o, {"up"})) \subseteq PendingAtCall(o)
    /\ pc[o] = "returned" =>
         /\ result[o] = EvIds(o, {"up"})
         /\ Range(result[o]) = PendingAtCall(o)

C1_Witness ==
  \E o \in Operators :
    IsApply(o) /\ pc[o] = "returned" /\ outOfOrder[o] /\ Len(result[o]) >= 2

\* C2: rollbackMigrations(ctx, count) with count >= 1 invokes down on the
\* min(count, number applied) applied migrations with the highest identifiers
\* only, in strictly descending order, keeps every other record, and on
\* return has rolled back exactly those and returns them in that order.
C2_RollbackCount ==
  \A o \in Operators : (IsRollback(o) /\ call[o].count # Omitted /\ call[o].count[1] >= 1) =>
    LET top == Highest(AppliedAtCall(o), call[o].count[1])
    IN /\ Descending(EvIds(o, {"down"}))
       /\ Range(EvIds(o, {"down"})) \subseteq top
       /\ (tableAtCall[o] \ top) \subseteq table
       /\ pc[o] = "returned" =>
            /\ result[o] = EvIds(o, {"down"})
            /\ Range(result[o]) = top
            /\ table = tableAtCall[o] \ top

C2_Witness ==
  \E o \in Operators :
    /\ IsRollback(o) /\ pc[o] = "returned" /\ call[o].count = <<2>>
    /\ Cardinality(AppliedAtCall(o)) = 3 /\ Len(result[o]) = 2

\* C3: rollbackMigrations with count omitted rolls back exactly one migration,
\* the applied one with the highest identifier, and keeps every other record.
C3_OmittedCountIsOne ==
  \A o \in Operators : (IsRollback(o) /\ call[o].count = Omitted) =>
    LET top == Highest(AppliedAtCall(o), 1)
    IN /\ Range(EvIds(o, {"down"})) \subseteq top
       /\ (tableAtCall[o] \ top) \subseteq table
       /\ pc[o] = "returned" => Range(result[o]) = top

\* The call of o got through bootstrap: compile() resolved.
Bootstrapped(o) == \E k \in 1..Len(log[o]) : log[o][k].ev = "compile" /\ log[o][k].ok
ViaManager(o) == call[o].via \in {"manager", "plugin"}
Cleanups(o) == Len(Events(o, {"cleanup"}))

\* C4: once bootstrap has succeeded, a call of applyMigrations or
\* rollbackMigrations invokes cleanup() exactly once, after its last migration
\* routine and bookkeeping statement, whether or not one of them failed, and
\* the call ends (returns or throws) only after that cleanup.
C4_CleanupOnce ==
  \A o \in Operators : (ViaManager(o) /\ Bootstrapped(o)) =>
    /\ Cleanups(o) <= 1
    /\ pc[o] \in {"routine", "write", "cleanup"} => Cleanups(o) = 0
    /\ pc[o] \in {"returned", "thrown"} =>
         /\ Cleanups(o) = 1
         /\ log[o][Len(log[o])].ev = "cleanup"

C4_Witness ==
  \E o \in Operators :
    /\ IsApply(o) /\ pc[o] = "thrown" /\ Bootstrapped(o)
    /\ Failed(o, {"up"}) /\ Len(EvIds(o, {"up"})) = 2
    /\ log[o][Len(log[o])] = Ev("cleanup", NoId, TRUE, FALSE)

\* C5: when compile() fails, cleanup() is invoked before the failure reaches
\* the caller.
C5_CleanupAfterCompileFailure ==
  \A o \in Operators :
    (ViaManager(o) /\ pc[o] = "thrown" /\ Failed(o, {"compile"})) => Cleanups(o) >= 1

\* C6: if the k-th pending migration of an applyMigrations call fails, in its
\* module load, its up routine or its INSERT, then when the failure reaches the
\* caller the pending migrations before it are recorded, it and the pending
\* migrations after it are not, and no up routine of a later one was invoked.
C6_PartialApply ==
  \A o \in Operators :
    (IsApply(o) /\ pc[o] = "thrown" /\ Failed(o, {"import", "up", "insert"})) =>
      LET failing == CHOOSE e \in Range(log[o]) : e.ev \in {"import", "up", "insert"} /\ ~e.ok
      IN /\ failing.id \in PendingAtCall(o)
         /\ \A id \in PendingAtCall(o) :
              /\ Before(id, failing.id) => id \in table
              /\ ~Before(id, failing.id) => id \notin table
         /\ \A id \in Range(EvIds(o, {"up"})) : ~Before(failing.id, id)
         /\ table \ PendingAtCall(o) = tableAtCall[o]

C6_Witness ==
  \E o \in Operators :
    /\ IsApply(o) /\ pc[o] = "thrown" /\ Cardinality(PendingAtCall(o)) = 3
    /\ \E e \in Range(log[o]) : e.ev = "insert" /\ ~e.ok /\ e.id = MkId(2)
    /\ table = {MkId(1)}

\* C7: between calls, the table holds a record for an id if and only if that
\* migration's up routine has completed without error and its down routine
\* has not completed since.
C7_RecordIffUpDone ==
  (\A o \in Operators : pc[o] \in Resting) => table = upDone

\* C8: when everything succeeds, applyMigrations returns exactly the ids of the
\* migration files that had no record when it began, each once, and the table
\* is then its content at that moment plus exactly those ids.
C8_ApplyResult ==
  \A o \in Operators : (IsApply(o) /\ pc[o] = "returned") =>
    /\ Range(result[o]) = PendingAtCall(o)
    /\ Len(result[o]) = Cardinality(PendingAtCall(o))
    /\ table = tableAtCall[o] \cup PendingAtCall(o)

C8_Witness ==
  \E o \in Operators :
    /\ IsApply(o) /\ pc[o] = "returned" /\ tableAtCall[o] = {}
    /\ Cardinality(FileIds) >= 2 /\ table = FileIds /\ Range(result[o]) = FileIds

\* C9: an applyMigrations call made after an earlier one ended, failed or not,
\* invokes no up routine and issues no INSERT for an id that is in the table,
\* runs exactly the unrecorded migrations in ascending order, and with nothing
\* pending issues no bookkeeping statement and returns an empty list.
C9_RerunSafe ==
  \A o \in Operators : (IsApply(o) /\ lastApply[o] # "none") =>
    /\ \A k \in 1..Len(log[o]) :
         log[o][k].ev \in {"import", "up", "insert"} =>
           ~log[o][k].present /\ log[o][k].id \notin tableAtCall[o]
    /\ Ascending(EvIds(o, {"up"}))
    /\ PendingAtCall(o) = {} => Events(o, {"import", "up", "insert", "delete"}) = <<>>
    /\ pc[o] = "returned" =>
         /\ result[o] = EvIds(o, {"up"})
         /\ Range(result[o]) = PendingAtCall(o)

C9_Witness ==
  \E o \in Operators :
    /\ IsApply(o) /\ lastApply[o] = "thrown" /\ pc[o] = "returned"
    /\ tableAtCall[o] # {} /\ result[o] # <<>>

\* C10: apply() on an entity that is applied, and rollback() on one that is
\* not, load no module, invoke no routine and issue no statement: the call
\* returns with nothing done and the table as it was.
C10_RedundantNoOp ==
  \A o \in Operators :
    (/\ call[o].via = "entity"
     /\ \/ call[o].op = "apply" /\ call[o].entity[1].isApplied
        \/ call[o].op = "rollback" /\ ~call[o].entity[1].isApplied) =>
      /\ log[o] = <<>>
      /\ table = tableAtCall[o]
      /\ pc[o] \in {"routine", "returned"}

C10_Witness ==
  \E o \in Operators :
    /\ call[o].via = "entity" /\ call[o].op = "apply" /\ call[o].entity[1].isApplied
    /\ call[o].entity[1].id \in table /\ pc[o] = "returned"

\* C11: every call of getAppliedMigrationIds, on its own or in the bootstrap of
\* applyMigrations and rollbackMigrations, issues CREATE TABLE IF NOT EXISTS
\* first and issues the SELECT only once that statement has completed; when
\* the CREATE fails no SELECT is issued and the call throws.
C11_CreateBeforeSelect ==
  \A o \in Operators : call[o].via \in {"manager", "plugin"} =>
    /\ log[o] # <<>> => log[o][1].ev = "create"
    /\ \A k \in 1..Len(log[o]) :
         log[o][k].ev = "select" =>
           k = 2 /\ log[o][1].ev = "create" /\ log[o][1].ok
    /\ pc[o] \notin {"ensure"} \cup Resting => Events(o, {"create"}) # <<>>
    /\ pc[o] \in {"returned", "thrown"} => Len(Events(o, {"create"})) = 1
    /\ Failed(o, {"create"}) => Events(o, {"select"}) = <<>> /\ pc[o] = "thrown"

C11_Witness ==
  \E o \in Operators :
    /\ call[o].op = "getAppliedMigrationIds" /\ pc[o] = "returned"
    /\ Len(log[o]) = 2 /\ log[o][2].ev = "select" /\ appliedMigrationIds[o] # {}

\* Events of the current call of o that start, and that end, the work on one migration.
Started(o) == Len(Events(o, {"import"}))
Ended(o) ==
  Len(SelectSeq(log[o], LAMBDA e : \/ e.ev \in {"insert", "delete"}
                                   \/ e.ev \in {"import", "up", "down"} /\ ~e.ok))

\* C16: within one applyMigrations or rollbackMigrations call the migrations
\* run one at a time: when the work on a migration starts, the last thing the
\* call did was the completed INSERT or DELETE of the previous migration of the
\* run, and at most one migration is in progress at any moment.
C16_OneAtATime ==
  \A o \in Operators : (IsApply(o) \/ IsRollback(o)) =>
    /\ Started(o) - Ended(o) \in {0, 1}
    /\ \A k \in 1..Len(log[o]) :
         log[o][k].ev = "import" =>
           \/ log[o][k - 1].ev = "compile"
           \/ /\ log[o][k - 1].ev = (IF IsApply(o) THEN "insert" ELSE "delete")
              /\ log[o][k - 1].ok
              /\ log[o][k - 1].id # log[o][k].id
              /\ log[o][k - 2].ev \in {"up", "down"}
              /\ log[o][k - 2].id = log[o][k - 1].id
    /\ \A k \in 1..Len(log[o]) :
         log[o][k].ev \in {"up", "down"} =>
           log[o][k - 1].ev = "import" /\ log[o][k - 1].id = log[o][k].id

C16_Witness ==
  \E o \in Operators :
    /\ IsRollback(o) /\ pc[o] = "routine" /\ i[o] = 2
    /\ Len(Events(o, {"delete"})) = 2 /\ Len(migrationsToRun[o]) = 3

\* C17: if during rollbackMigrations the down routine of the j-th migration in
\* rollback order fails, then when the failure reaches the caller no DELETE
\* was issued for it and its record is still there, the records of the j-1
\* migrations before it in rollback order (the applied ones with a higher
\* identifier) are gone, no down routine of a later one was invoked and every
\* other record is still there.
C17_PartialRollback ==
  \A o \in Operators :
    (IsRollback(o) /\ pc[o] \in {"cleanup", "thrown"} /\ Failed(o, {"down"})) =>
      LET failing == CHOOSE e \in Range(log[o]) : e.ev = "down" /\ ~e.ok
          downs == EvIds(o, {"down"})
          before == {id \in AppliedAtCall(o) : Before(failing.id, id)}
      IN /\ err[o]
         /\ pc[o] = "thrown" => result[o] = <<>>
         /\ failing.id \in AppliedAtCall(o)
         /\ downs[Len(downs)] = failing.id
         /\ \A e \in Range(log[o]) : e.ev = "delete" => e.id # failing.id
         /\ Range(downs) = before \cup {failing.id}
         /\ Range(EvIds(o, {"delete"})) = before
         /\ table = tableAtCall[o] \ before

C17_Witness ==
  \E o \in Operators :
    /\ IsRollback(o) /\ pc[o] = "thrown" /\ Cardinality(AppliedAtCall(o)) = 3
    /\ \E e \in Range(log[o]) : e.ev = "down" /\ ~e.ok /\ e.id = MkId(2)
    /\ table = {MkId(1), MkId(2)}

\* C18: rollbackMigrations(ctx, 0) invokes no down routine, deletes no record
\* and returns an empty list, however many migrations are applied.
C18_ZeroCountRollsBackNothing ==
  \A o \in Operators : (IsRollback(o) /\ call[o].count = <<0>>) =>
    /\ Events(o, {"down", "delete"}) = <<>>
    /\ table = tableAtCall[o]
    /\ pc[o] = "returned" => result[o] = <<>>

\* C20: with a single operator and files of pairwise-distinct identifiers,
\* every INSERT of an applyMigrations or rollbackMigrations call targets an id
\* that is absent from the table at that moment, every DELETE an id that is
\* present, and no up routine runs for a migration whose record is in the table.
C20_WritesMatchTable ==
  \A o \in Operators : (IsApply(o) \/ IsRollback(o)) =>
    \A e \in Range(log[o]) :
      /\ e.ev \in {"up", "insert"} => ~e.present
      /\ e.ev \in {"down", "delete"} => e.present

C20_Witness ==
  \E o \in Operators :
    /\ IsApply(o) /\ pc[o] = "returned" /\ Cardinality(tableAtCall[o]) = 1
    /\ Len(Events(o, {"insert"})) = 2 /\ Cardinality(table) = 3

\* Records that had no file in the directory when the call of o began.
OrphansAtCall(o) == tableAtCall[o] \ FileIds

\* C19: a record whose id has no discovered migration file is invisible to the
\* engine: no applyMigrations or rollbackMigrations call deletes it, inserts it
\* again or runs a routine for it, and the count of rollbackMigrations is taken
\* over the applied migrations that have a file.
C19_OrphansInvisible ==
  \A o \in Operators : (IsApply(o) \/ IsRollback(o)) =>
    /\ OrphansAtCall(o) \subseteq table
    /\ \A e \in Range(log[o]) : e.id \notin OrphansAtCall(o)
    /\ Range(result[o]) \cap OrphansAtCall(o) = {}
    /\ (IsRollback(o) /\ pc[o] = "returned" /\ call[o].count # Omitted
        /\ call[o].count[1] >= 1) =>
         /\ Range(result[o]) = Highest(AppliedAtCall(o), call[o].count[1])
         /\ table = tableAtCall[o] \ Range(result[o])

C19_Witness ==
  \E o \in Operators :
    /\ IsRollback(o) /\ pc[o] = "returned" /\ call[o].count = <<1>>
    /\ tableAtCall[o] = {MkId(1), MkId(2), MkId(3)}
    /\ OrphansAtCall(o) = {MkId(3)}
    /\ result[o] = <<MkId(2)>> /\ table = {MkId(1), MkId(3)}

\* The last file operation was bumpMigration(n), the one before it a
\* generateMigration(n) that wrote its file, and the clock advanced in between.
GeneratedThenBumped ==
  /\ fileOp.op = "bump" /\ fileOp.prev.op = "generate" /\ ~fileOp.prev.threw
  /\ fileOp.prev.name = fileOp.name
  /\ fileOp.at > fileOp.prev.at

\* What the claim says of such a bump, but for the number of files left for n.
BumpedTheGenerated ==
  /\ ~fileOp.threw
  /\ fileOp.path = <<Path(FormatDate(fileOp.at), fileOp.name, fileOp.prev.ext)>>
  /\ fileOp.path # fileOp.prev.path
  /\ ParseInt(fileOp.path[1].prefix) > ParseInt(fileOp.prev.path[1].prefix)
  /\ fileOp.path[1] \in files
  /\ fileOp.prev.path[1] \notin files
  /\ Cardinality(files) = fileOp.count

\* C13 as stated: for every name n, generateMigration(n) followed by
\* bumpMigration(n) with the clock advanced in between leaves exactly one file
\* for n, at a new path with the same name and extension and the clock value at
\* bump time as its identifier; the original path is gone, the number of files
\* is unchanged and bumpMigration returns the new path.
C13_ExactlyOneFile ==
  GeneratedThenBumped => BumpedTheGenerated /\ Named(files, fileOp.name) = 1

\* C13, amended: the same holds for every name n that has no file in the
\* directory when generateMigration(n) is called; when n has files already,
\* the bump re-dates the last of them in sorted order, which need not be the
\* generated one, and the others stay: as many files carry the name as before
\* the bump, and the number of files is unchanged.
C13_FreshNameOneFile ==
  GeneratedThenBumped =>
    /\ fileOp.prev.named = 0 => BumpedTheGenerated /\ Named(files, fileOp.name) = 1
    /\ ~fileOp.threw
    /\ fileOp.path = <<Path(FormatDate(fileOp.at), fileOp.name, fileOp.picked[1].ext)>>
    /\ fileOp.path[1] \in files /\ fileOp.picked[1] \notin files
    /\ \A f \in files : f.name = fileOp.name /\ f # fileOp.path[1] =>
                          FileNameLess(f, fileOp.picked[1])
    /\ Named(files, fileOp.name) = fileOp.named
    /\ Cardinality(files) = fileOp.count

C13_Witness ==
  /\ GeneratedThenBumped /\ fileOp.prev.named = 0 /\ fileOp.count = 2
  /\ Named(files, fileOp.name) = 1 /\ fileOp.path # Null

\* C14: bumpMigration(n) on a directory with no file of name n returns null,
\* raises no error and leaves the set of files as it was.
C14_BumpNoMatch ==
  [][(fileOp'.op = "bump" /\ fileOp'.named = 0) =>
       (files' = files /\ fileOp'.path = Null /\ fileOp'.picked = Null /\ ~fileOp'.threw)]_vars

C14_Witness ==
  /\ fileOp.op = "bump" /\ fileOp.named = 0 /\ fileOp.count = 2
  /\ fileOp.path = Null /\ Cardinality(files) = 2

\* C15: bumpMigration re-dates only a migration that is not applied: it never
\* renames a file whose identifier is recorded in the table, so the up routine
\* of a re-dated file is never one a later applyMigrations runs again.
C15_BumpedNeverReapplied ==
  (fileOp.op = "bump" /\ fileOp.path # Null /\ fileOp.path # fileOp.picked) =>
    \A o \in Operators : \A e \in Range(log[o]) :
      (e.ev = "up" /\ e.ok /\ e.id = fileOp.path[1].prefix) => ~fileOp.recorded

\* A step of a rollbackMigrations call that deletes a record.
Deletes(o) == IsRollback(o) /\ pc[o] = "write" /\ table' # table

\* C12: rollbackMigrations(ctx, count) rolls back the count most recently
\* applied migrations, most recently applied first, in every history of apply
\* runs, also when a file with a smaller identifier was added and applied
\* after a migration with a larger identifier: each record it deletes is the
\* one inserted last among those still in the table.
C12_MostRecentlyApplied ==
  [][\A o \in Operators :
       Deletes(o) => table \ table' = {applyOrder[Len(applyOrder)]}]_vars

\* What the code does in such histories: each record it deletes is the one
\* with the highest identifier among the applied migrations that have a file.
RollsBackHighestIdentifiers ==
  [][\A o \in Operators :
       Deletes(o) => table \ table' = Highest(FileIds \cap table, 1)]_vars

\* The identifiers the call of o found pending when it fetched the applied ids.
PendingAtFetch(o) == FileIds \ appliedMigrationIds[o]

\* The call of o ran the up routine of id to its end.
RanUp(o, id) == \E e \in Range(log[o]) : e.ev = "up" /\ e.ok /\ e.id = id

\* C21: the engine provides no mutual exclusion between operators: what an
\* applyMigrations call runs is fixed by the applied ids it fetched, whatever
\* another operator has recorded since, so when two calls fetch before either
\* inserts, both invoke the up routine of the same pending migration.
C21_NoMutualExclusion ==
  \A o \in Operators : (IsApply(o) /\ Bootstrapped(o)) =>
    /\ Range(Ids(migrationsToRun[o])) = PendingAtFetch(o)
    /\ Ascending(Ids(migrationsToRun[o]))
    /\ \A k \in 1..Len(migrationsToRun[o]) :
         (k <= i[o] \/ (k = i[o] + 1 /\ pc[o] = "write")) =>
           RanUp(o, migrationsToRun[o][k].id)

\* One migration's up routine has run twice, once in each operator's call, the
\* second time with the record of the first already in the table.
C21_Witness ==
  \E id \in FileIds :
    /\ \A o \in Operators : IsApply(o) /\ id \in PendingAtFetch(o) /\ RanUp(o, id)
    /\ \E o \in Operators : \E e \in Range(log[o]) :
         e.ev = "up" /\ e.ok /\ e.id = id /\ e.present
    /\ id \in table

====
